---- MODULE Spec2Model ----
(***************************************************************************)
(* Model of the CBCA hierarchical statute parser                          *)
(* (src/scripts/parsing/cbca_parser.py) and of the retrying download of    *)
(* the case corpus (src/download_cases.py).                                *)
(*                                                                         *)
(* Strings are sequences of one-character strings, so that formatting,     *)
(* stripping, slugging and lower-casing are computed as the code computes  *)
(* them.  The recursion of _process_section -> _process_subsection ->      *)
(* _process_paragraph -> _process_subparagraph is an explicit call stack:  *)
(* each handler invocation is one step, and the pending invocations are    *)
(* the frames of `stack`, run depth first in document order.  The document *)
(* is the parser's input: each element's own data (label, title, level,    *)
(* number of children of each tag) is drawn when the walk reaches it.      *)
(***************************************************************************)
EXTENDS Integers, Sequences, FiniteSets, TLC

VARIABLES
    pc,                  \* position inside CBCAParser.parse
    has_body,            \* input: does the document hold a Body element
    nodes,               \* self.hierarchy.nodes : node_id -> StatuteNode
    current_part_id,     \* self.current_part_id (None or an id)
    current_part_label,  \* self.current_part_label
    current_heading_id,  \* self.current_heading_id (None or an id)
    stack,               \* pending nested handler invocations, first = next
    nelems,              \* number of document elements consumed so far
    last,                \* the element the last step consumed (history)
    log,                 \* history: the (id, parent) attachments, in order
    download             \* the state of one call of download_with_retry

\* the variables of the parser
parser_vars == <<pc, has_body, nodes, current_part_id, current_part_label,
                 current_heading_id, stack, nelems, last, log>>

vars == <<pc, has_body, nodes, current_part_id, current_part_label,
          current_heading_id, stack, nelems, last, log, download>>

----------------------------------------------------------------------------
(* Bounds of the model. *)

\* total number of elements (top-level and nested) of one document
MaxElems == 4
\* number of same-tag children one element may hold
MaxKids == 2
\* largest value of the argument `retries` of download_with_retry
MaxRetries == 4

----------------------------------------------------------------------------
(* Strings. *)

\* Python None / an absent sub-element: no character sequence equals it.
None == <<"None">>

Empty == <<>>

ACT_CODE == <<"c", "b", "c", "a">>

CBCA == <<"C", "B", "C", "A">>

ACT_NAME == <<"C","a","n","a","d","a"," ","B","u","s","i","n","e","s","s"," ",
              "C","o","r","p","o","r","a","t","i","o","n","s"," ","A","c","t">>

ROOT_ID == ACT_CODE \o <<"_", "r", "o", "o", "t">>

UpperChars == <<"A","B","C","D","E","F","G","H","I","J","K","L","M",
                "N","O","P","Q","R","S","T","U","V","W","X","Y","Z">>

LowerChars == <<"a","b","c","d","e","f","g","h","i","j","k","l","m",
                "n","o","p","q","r","s","t","u","v","w","x","y","z">>

Digits == <<"0","1","2","3","4","5","6","7","8","9">>

Whitespace == {" ", "\t", "\n"}

RomanChars == {"I", "V", "X", "L", "C"}

Range(s) == {s[i] : i \in 1..Len(s)}

Min(a, b) == IF a <= b THEN a ELSE b

\* str.lower() on one character
LowerChar(c) ==
    IF c \in Range(UpperChars)
      THEN LowerChars[CHOOSE i \in 1..Len(UpperChars) : UpperChars[i] = c]
      ELSE c

\* str.lower()
Lower(s) == [i \in 1..Len(s) |-> LowerChar(s[i])]

\* str.startswith(p)
StartsWith(s, p) == Len(s) >= Len(p) /\ SubSeq(s, 1, Len(p)) = p

\* str.lstrip(chars)
RECURSIVE LStrip(_, _)
LStrip(s, chars) ==
    IF s # <<>> /\ Head(s) \in chars THEN LStrip(Tail(s), chars) ELSE s

\* str.rstrip(chars)
RECURSIVE RStrip(_, _)
RStrip(s, chars) ==
    IF s # <<>> /\ s[Len(s)] \in chars
      THEN RStrip(SubSeq(s, 1, Len(s) - 1), chars) ELSE s

\* str.strip(chars)
Strip(s, chars) == RStrip(LStrip(s, chars), chars)

\* label.strip("()")
StripParens(s) == Strip(s, {"(", ")"})

\* re.sub(r'\s+', ' ', text): every run of whitespace becomes one space
RECURSIVE CollapseWhitespace(_)
CollapseWhitespace(s) ==
    IF s = <<>> THEN <<>>
    ELSE IF Head(s) \in Whitespace
      THEN <<" ">> \o CollapseWhitespace(LStrip(s, Whitespace))
      ELSE <<Head(s)>> \o CollapseWhitespace(Tail(s))

\* _get_text(elem): "" for an absent element, else the flattened text with
\* whitespace runs collapsed and the ends trimmed
GetText(raw) ==
    IF raw = None THEN Empty ELSE Strip(CollapseWhitespace(raw), Whitespace)

\* str.replace(old, ""): remove the occurrences of old, left to right
RECURSIVE RemoveAll(_, _)
RemoveAll(s, old) ==
    IF s = <<>> THEN <<>>
    ELSE IF StartsWith(s, old)
      THEN RemoveAll(SubSeq(s, Len(old) + 1, Len(s)), old)
      ELSE <<Head(s)>> \o RemoveAll(Tail(s), old)

\* the longest prefix of s made of characters of set
RECURSIVE TakeWhile(_, _)
TakeWhile(s, set) ==
    IF s # <<>> /\ Head(s) \in set
      THEN <<Head(s)>> \o TakeWhile(Tail(s), set) ELSE <<>>

\* str(counter) for counter >= 0
RECURSIVE IntToStr(_)
IntToStr(n) ==
    IF n < 10 THEN <<Digits[n + 1]>>
    ELSE IntToStr(n \div 10) \o <<Digits[(n % 10) + 1]>>

----------------------------------------------------------------------------
(* The input alphabets: raw texts of Label, TitleText and MarginalNote      *)
(* sub-elements (None = the sub-element is absent) and the level attribute. *)

PART == <<"P", "A", "R", "T">>

PartI == <<"P","A","R","T"," ","I">>

\* "PART I" and "PART I.1" name different Parts of an Act; "PART 2" has no
\* Roman numeral
HeadingLabels ==
    { None,
      PartI,
      <<"P","A","R","T"," ","I",".","1">>,
      <<"P","A","R","T"," ","2">> }

\* heading.get("level", ""): "3" stands for every value other than 1 and 2
HeadingLevels == {"1", "2", "3"}

\* TitleText of a heading; the last has a line break in it
HeadingTitles == { None, <<"A"," ","b">>, <<"A","-","\n","b">> }

\* the Heading elements of the input documents: level-1 headings with a
\* label (Part headings) and no title, level-2 headings without a label or
\* labelled "PART I" with every title, an unlabelled level-1 heading, and a
\* heading of another level
HeadingElems ==
    {h \in [level : HeadingLevels, label : HeadingLabels,
            title : HeadingTitles] :
        \/ h.level = "1" /\ h.label # None /\ h.title = None
        \/ h.level = "2" /\ h.label \in {None, PartI}
        \/ h.level = "1" /\ h.label = None /\ h.title = <<"A"," ","b">>
        \/ h.level = "3" /\ h.label = None /\ h.title = None}

SectionLabels == { None, <<"1">>, <<"2">> }

\* labels of Subsection, Paragraph and Subparagraph elements
NestedLabels == { None, <<"(","1",")">>, <<"(","a",")">> }

\* labels of Subsection elements: those, and a Label element without text
SubsectionLabels == NestedLabels \cup { Empty }

\* labels of Paragraph elements: likewise
ParagraphLabels == NestedLabels \cup { Empty }

\* tags of top-level Body children that _process_body has no branch for
OtherTags == {"Note", "Subsection"}

----------------------------------------------------------------------------
(* StatuteNode and StatuteHierarchy.  The fields act_name, text, summary    *)
(* and metadata are written once and read by no operation modelled here.    *)

StatuteNode(node_type, parent_id, label, title, full_citation) ==
    [ node_type     |-> node_type,
      parent_id     |-> parent_id,
      children      |-> <<>>,
      label         |-> label,
      title         |-> title,
      full_citation |-> full_citation ]

\* self.hierarchy.nodes[node_id] = node
InsertNode(ns, node_id, node) ==
    [k \in DOMAIN ns \cup {node_id} |-> IF k = node_id THEN node ELSE ns[k]]

\* mutant: children.insert(0, node_id) instead of append
AppendChild_AtFront(ns, parent_id, node_id) ==
    [ns EXCEPT ![parent_id].children = <<node_id>> \o @]

\* self.hierarchy.nodes[parent_id].children.append(node_id)
AppendChild(ns, parent_id, node_id) ==
    [ns EXCEPT ![parent_id].children = Append(@, node_id)]

\* the dict insertion followed by the append to the parent's children
Attach(ns, node_id, node) ==
    AppendChild(InsertNode(ns, node_id, node), node.parent_id, node_id)

----------------------------------------------------------------------------
(* Identifier and citation building. *)

\* re.match(r'PART\s+([IVXLC]+)', label): group(1), or None without a match
PartMatch(label) ==
    IF ~StartsWith(label, PART) THEN None
    ELSE LET rest  == SubSeq(label, Len(PART) + 1, Len(label))
             ws    == TakeWhile(rest, Whitespace)
             after == SubSeq(rest, Len(ws) + 1, Len(rest))
             roman == TakeWhile(after, RomanChars)
         IN  IF ws = <<>> \/ roman = <<>> THEN None ELSE roman

\* part_num of _create_part_node
PartNum(label) ==
    IF PartMatch(label) # None THEN PartMatch(label)
    ELSE RemoveAll(label, PART \o <<" ">>)

\* node_id of _create_part_node
PartId(label) ==
    ACT_CODE \o <<"_","p","a","r","t","_">> \o Lower(PartNum(label))

PartCitation(label) == CBCA \o <<" ">> \o label

\* the slice [:30] of the title slug
SlugLen == 30

\* re.sub(r'[^a-z0-9]+', '_', s): every run of other characters becomes "_"
SlugChars == Range(LowerChars) \cup Range(Digits)

RECURSIVE SubNonAlnum(_)
SubNonAlnum(s) ==
    IF s = <<>> THEN <<>>
    ELSE IF Head(s) \in SlugChars
      THEN <<Head(s)>> \o SubNonAlnum(Tail(s))
      ELSE <<"_">> \o
           SubNonAlnum(LStrip(s, {c \in Range(s) : c \notin SlugChars}))

\* title_slug of _create_heading_node
TitleSlug(title) ==
    LET sub == SubNonAlnum(Lower(title))
    IN  SubSeq(sub, 1, Min(SlugLen, Len(sub)))

\* the candidate id of a sub-heading
HeadingBaseId(part_id, title) ==
    part_id \o <<"_","h","e","a","d","i","n","g","_">> \o TitleSlug(title)

\* the loop `while node_id in self.hierarchy.nodes`
RECURSIVE Probe(_, _, _, _)
Probe(ns, base_id, node_id, counter) ==
    IF node_id \in DOMAIN ns
      THEN Probe(ns, base_id, base_id \o <<"_">> \o IntToStr(counter),
                 counter + 1)
      ELSE node_id

\* mutant: the candidate id is used without the uniqueness loop
HeadingId_NoProbe(ns, part_id, title) == HeadingBaseId(part_id, title)

\* node_id of _create_heading_node
HeadingId(ns, part_id, title) ==
    Probe(ns, HeadingBaseId(part_id, title), HeadingBaseId(part_id, title), 1)

HeadingCitation(part_label, title) ==
    CBCA \o <<" ">> \o part_label \o <<" ","-"," ">> \o title

SectionPrefix == CBCA \o <<" ","s","."," ">>

SectionId(section_num) == ACT_CODE \o <<"_","s">> \o section_num

SectionCitation(section_num) == SectionPrefix \o section_num

\* mutant: `current_part_id or current_heading_id or root_id`
SectionParent_PartFirst(heading_id, part_id) ==
    IF part_id # None /\ part_id # Empty THEN part_id
    ELSE IF heading_id # None /\ heading_id # Empty THEN heading_id
    ELSE ROOT_ID

\* parent_id of _process_section: Python `or` takes the first truthy value
SectionParent(heading_id, part_id) ==
    IF heading_id # None /\ heading_id # Empty THEN heading_id
    ELSE IF part_id # None /\ part_id # Empty THEN part_id
    ELSE ROOT_ID

SubsectionId(section_num, subsec_label) ==
    SectionId(section_num) \o <<"_">> \o StripParens(subsec_label)

SubsectionCitation(section_num, subsec_label) ==
    SectionPrefix \o section_num \o subsec_label

ParagraphId(section_num, subsec_label, para_label) ==
    IF subsec_label # Empty
      THEN SectionId(section_num) \o <<"_">> \o StripParens(subsec_label)
               \o <<"_">> \o StripParens(para_label)
      ELSE SectionId(section_num) \o <<"_">> \o StripParens(para_label)

ParagraphCitation(section_num, subsec_label, para_label) ==
    IF subsec_label # Empty
      THEN SectionPrefix \o section_num \o subsec_label \o para_label
      ELSE SectionPrefix \o section_num \o para_label

SubparagraphId(section_num, subsec_label, para_label, subpara_label) ==
    LET subsec_clean == IF subsec_label # Empty
                          THEN StripParens(subsec_label) ELSE Empty
        para_clean   == StripParens(para_label)
    IN  IF subsec_clean # Empty
          THEN SectionId(section_num) \o <<"_">> \o subsec_clean \o <<"_">>
                   \o para_clean \o <<"_">> \o StripParens(subpara_label)
          ELSE SectionId(section_num) \o <<"_">> \o para_clean \o <<"_">>
                   \o StripParens(subpara_label)

SubparagraphCitation(section_num, subsec_label, para_label, subpara_label) ==
    LET subsec_clean == IF subsec_label # Empty
                          THEN StripParens(subsec_label) ELSE Empty
    IN  IF subsec_clean # Empty
          THEN SectionPrefix \o section_num \o subsec_label \o para_label
                   \o subpara_label
          ELSE SectionPrefix \o section_num \o para_label \o subpara_label

----------------------------------------------------------------------------
(* The parser's handlers, as functions of the parser state                  *)
(* P = [nodes, current_part_id, current_part_label, current_heading_id].    *)

ParserState ==
    [ nodes              |-> nodes,
      current_part_id    |-> current_part_id,
      current_part_label |-> current_part_label,
      current_heading_id |-> current_heading_id ]

\* mutant: current_heading_id is not reset by a new Part
CreatePartNode_KeepsHeading(P, label, title) ==
    LET node_id == PartId(label)
        node    == StatuteNode("part", ROOT_ID, label, title,
                               PartCitation(label))
    IN  [ nodes              |-> Attach(P.nodes, node_id, node),
          current_part_id    |-> node_id,
          current_part_label |-> label,
          current_heading_id |-> P.current_heading_id ]

\* _create_part_node(label, title)
CreatePartNode(P, label, title) ==
    LET node_id == PartId(label)
        node    == StatuteNode("part", ROOT_ID, label, title,
                               PartCitation(label))
    IN  [ nodes              |-> Attach(P.nodes, node_id, node),
          current_part_id    |-> node_id,
          current_part_label |-> label,
          current_heading_id |-> None ]

\* mutant: without an active part the heading goes under the root
CreateHeadingNode_NoPartGuard(P, label, title) ==
    LET part_id == IF P.current_part_id = None \/ P.current_part_id = Empty
                     THEN ROOT_ID ELSE P.current_part_id
        node_id == HeadingId(P.nodes, part_id, title)
        node    == StatuteNode("heading", part_id, label, title,
                       HeadingCitation(P.current_part_label, title))
    IN  [P EXCEPT !.nodes = Attach(P.nodes, node_id, node),
                  !.current_heading_id = node_id]

\* _create_heading_node(label, title, level)
CreateHeadingNode(P, label, title) ==
    IF P.current_part_id = None \/ P.current_part_id = Empty THEN P
    ELSE LET node_id == HeadingId(P.nodes, P.current_part_id, title)
             node    == StatuteNode("heading", P.current_part_id, label, title,
                            HeadingCitation(P.current_part_label, title))
         IN  [P EXCEPT !.nodes = Attach(P.nodes, node_id, node),
                       !.current_heading_id = node_id]

\* mutant: a level-1 heading without the Part marker is dropped
HeadingBranch_Level2Only(level, label) ==
    IF level = "1" /\ StartsWith(label, PART) THEN "part"
    ELSE IF level = "2" THEN "heading"
    ELSE "none"

\* which branch _process_heading takes
HeadingBranch(level, label) ==
    IF level = "1" /\ StartsWith(label, PART) THEN "part"
    ELSE IF level = "2" \/ (level = "1" /\ ~StartsWith(label, PART))
      THEN "heading"
      ELSE "none"

\* _process_heading(heading)
ProcessHeadingElem(P, level, raw_label, raw_title) ==
    LET label == GetText(raw_label)
        title == GetText(raw_title)
    IN  CASE HeadingBranch(level, label) = "part" ->
               CreatePartNode(P, label, title)
          [] HeadingBranch(level, label) = "heading" ->
               CreateHeadingNode(P, label, title)
          [] OTHER -> P

\* the node _process_section builds
SectionNode(P, section_num, marginal_note) ==
    StatuteNode("section",
                SectionParent(P.current_heading_id, P.current_part_id),
                section_num, marginal_note, SectionCitation(section_num))

\* _process_section, lines 291-293: the append is guarded by
\* `if parent_id in self.hierarchy.nodes`
SectionNodes(ns, node_id, node) ==
    LET ins == InsertNode(ns, node_id, node)
    IN  IF node.parent_id \in DOMAIN ins
          THEN AppendChild(ins, node.parent_id, node_id) ELSE ins

\* a pending call _process_subsection / _process_paragraph /
\* _process_subparagraph with its arguments
Frame(tag, parent_id, section_num, subsec_label, para_label) ==
    [ tag          |-> tag,
      parent_id    |-> parent_id,
      section_num  |-> section_num,
      subsec_label |-> subsec_label,
      para_label   |-> para_label ]

Frames(n, frame) == [i \in 1..n |-> frame]

\* mutant: the direct paragraphs are processed whether or not the section
\* has subsections
SectionCalls_AlwaysParagraphs(node_id, section_num, nsub, npara) ==
    Frames(nsub, Frame("Subsection", node_id, section_num, Empty, Empty))
    \o Frames(npara, Frame("Paragraph", node_id, section_num, Empty, Empty))

\* _process_section, lines 295-302: the calls it makes, in order
SectionCalls(node_id, section_num, nsub, npara) ==
    Frames(nsub, Frame("Subsection", node_id, section_num, Empty, Empty))
    \o (IF nsub = 0
          THEN Frames(npara,
                      Frame("Paragraph", node_id, section_num, Empty, Empty))
          ELSE <<>>)

\* the node _process_subsection builds
SubsectionNode(f, subsec_label, marginal_note) ==
    StatuteNode("subsection", f.parent_id, subsec_label, marginal_note,
                SubsectionCitation(f.section_num, subsec_label))

\* _process_subsection, lines 337-339
SubsectionCalls(node_id, f, subsec_label, npara) ==
    Frames(npara,
           Frame("Paragraph", node_id, f.section_num, subsec_label, Empty))

\* the node _process_paragraph builds
ParagraphNode(f, para_label) ==
    StatuteNode("paragraph", f.parent_id, para_label, Empty,
                ParagraphCitation(f.section_num, f.subsec_label, para_label))

\* _process_paragraph, lines 377-379
ParagraphCalls(node_id, f, para_label, nsubpara) ==
    Frames(nsubpara,
           Frame("Subparagraph", node_id, f.section_num, f.subsec_label,
                 para_label))

\* the node _process_subparagraph builds
SubparagraphNode(f, subpara_label) ==
    StatuteNode("subparagraph", f.parent_id, subpara_label, Empty,
                SubparagraphCitation(f.section_num, f.subsec_label,
                                     f.para_label, subpara_label))

----------------------------------------------------------------------------
(* History: the element a step consumed and the node it stored.            *)

Elem(tag, level, label, nsub, npara, nsubpara, node_id) ==
    [ tag      |-> tag,      \* the element's tag
      level    |-> level,    \* its level attribute (headings)
      label    |-> label,    \* raw Label text, None when absent
      nsub     |-> nsub,     \* number of Subsection children
      npara    |-> npara,    \* number of Paragraph children
      nsubpara |-> nsubpara, \* number of Subparagraph children
      node_id  |-> node_id ] \* id the step stored a node under, else None

NoElem == Elem("", "", None, 0, 0, 0, None)

\* the entries a step adds to the attachment log
Logged(node_id, parent_id) ==
    <<[id |-> node_id, parent |-> parent_id]>>

----------------------------------------------------------------------------
(* The state machine. *)

\* MarginalNote texts of sections and subsections
MarginalNotes == { None }

\* mutant: the handlers never return early
LabelMissing_Never(raw_label) == FALSE

\* mutant: `if not label: return` on the extracted text instead of the
\* test for the absent element
LabelMissing_EmptyText(raw_label) ==
    raw_label # None /\ GetText(raw_label) = Empty

\* `if label_elem is None: return` of the four _process_* handlers
LabelMissing(raw_label) == raw_label = None

\* download_with_retry before it is called, and while the parser runs
NotDownloading ==
    [ pc       |-> "idle",  \* position inside download_with_retry
      retries  |-> 0,       \* the argument `retries`
      attempt  |-> 0,       \* the loop variable
      loads    |-> 0,       \* calls of load_dataset made
      saves    |-> 0,       \* calls of save_to_disk completed
      slept    |-> 0,       \* seconds spent in time.sleep
      failures |-> <<>>,    \* the call that raised, per failed attempt
      exc      |-> "" ]     \* the exception being handled

\* CBCAParser.__init__
ParserInit ==
    /\ pc = "parse"
    /\ has_body \in BOOLEAN
    /\ nodes = <<>>
    /\ current_part_id = None
    /\ current_part_label = Empty
    /\ current_heading_id = None
    /\ stack = <<>>
    /\ nelems = 0
    /\ last = NoElem
    /\ log = <<>>

\* a run of the parser
Init == ParserInit /\ download = NotDownloading

\* the root node of _create_root_node; the document of the model has no
\* ShortTitle, so title = ACT_NAME
RootNode == StatuteNode("act", None, CBCA, ACT_NAME, CBCA)

\* parse, lines 108-112: _create_root_node(root)
CreateRootNode ==
    /\ pc = "parse"
    /\ nodes' = InsertNode(nodes, ROOT_ID, RootNode)
    /\ pc' = "find_body"
    /\ UNCHANGED <<download, has_body, current_part_id, current_part_label,
                   current_heading_id, stack, nelems, last, log>>

\* parse, lines 115-121: look the Body up, raise ValueError without one
FindBody ==
    /\ pc = "find_body"
    /\ pc' = IF has_body THEN "body" ELSE "failed"
    /\ UNCHANGED <<download,
                   has_body, nodes, current_part_id, current_part_label,
                   current_heading_id, stack, nelems, last, log>>

\* the walker is between two top-level elements of the Body
AtTopLevel == pc = "body" /\ stack = <<>>

\* _process_body: the next element is a Heading
ProcessHeading ==
    /\ AtTopLevel
    /\ nelems < MaxElems
    /\ \E h \in HeadingElems :
         LET Q      == ProcessHeadingElem(ParserState, h.level, h.label,
                                          h.title)
             branch == HeadingBranch(h.level, GetText(h.label))
             made   == IF branch = "part" THEN Q.current_part_id
                       ELSE IF branch = "heading" /\ Q.nodes # nodes
                         THEN Q.current_heading_id
                         ELSE None
         IN  /\ nodes' = Q.nodes
             /\ current_part_id' = Q.current_part_id
             /\ current_part_label' = Q.current_part_label
             /\ current_heading_id' = Q.current_heading_id
             /\ last' = Elem("Heading", h.level, h.label, 0, 0, 0, made)
             /\ log' = IF made = None THEN log
                       ELSE log \o Logged(made, Q.nodes[made].parent_id)
    /\ nelems' = nelems + 1
    /\ UNCHANGED <<download, pc, has_body, stack>>

\* _process_body: the next element is a Section; _process_section(elem)
ProcessSection ==
    /\ AtTopLevel
    /\ \E raw_label \in SectionLabels, raw_note \in MarginalNotes,
          nsub \in 0..MaxKids, npara \in 0..MaxKids :
         IF LabelMissing(raw_label)
           THEN /\ nelems < MaxElems
                /\ last' = Elem("Section", "", raw_label, nsub, npara, 0,
                                None)
                /\ UNCHANGED <<nodes, stack, log>>
           ELSE LET section_num == GetText(raw_label)
                    node_id     == SectionId(section_num)
                    node        == SectionNode(ParserState, section_num,
                                               GetText(raw_note))
                    calls       == SectionCalls(node_id, section_num, nsub,
                                                npara)
                IN  /\ nelems + 1 + Len(calls) <= MaxElems
                    /\ nodes' = SectionNodes(nodes, node_id, node)
                    /\ stack' = calls
                    /\ last' = Elem("Section", "", raw_label, nsub, npara,
                                    0, node_id)
                    /\ log' = IF node.parent_id \in DOMAIN nodes'
                                THEN log \o Logged(node_id, node.parent_id)
                                ELSE log
    /\ nelems' = nelems + 1
    /\ UNCHANGED <<download, pc, has_body, current_part_id, current_part_label,
                   current_heading_id>>

\* mutant: `else:` in the place of `elif tag == "Section":`, every element
\* that is not a Heading is taken for a Section
ProcessOther_AsSection ==
    /\ AtTopLevel
    /\ nelems < MaxElems
    /\ \E tag \in OtherTags, raw_label \in {None, <<"(","1",")">>} :
         IF LabelMissing(raw_label)
           THEN /\ last' = Elem(tag, "", raw_label, 0, 0, 0, None)
                /\ UNCHANGED <<nodes, log>>
           ELSE LET section_num == GetText(raw_label)
                    node_id     == SectionId(section_num)
                    node        == SectionNode(ParserState, section_num,
                                               Empty)
                IN  /\ nodes' = SectionNodes(nodes, node_id, node)
                    /\ last' = Elem(tag, "", raw_label, 0, 0, 0, node_id)
                    /\ log' = log \o Logged(node_id, node.parent_id)
    /\ nelems' = nelems + 1
    /\ UNCHANGED <<download, pc, has_body, current_part_id, current_part_label,
                   current_heading_id, stack>>

\* _process_body: an element that is neither Heading nor Section
ProcessOther ==
    /\ AtTopLevel
    /\ nelems < MaxElems
    /\ \E tag \in OtherTags, raw_label \in {None, <<"(","1",")">>} :
         last' = Elem(tag, "", raw_label, 0, 0, 0, None)
    /\ nelems' = nelems + 1
    /\ UNCHANGED <<download,
                   pc, has_body, nodes, current_part_id, current_part_label,
                   current_heading_id, stack, log>>

\* the frame of the nested call that runs next
Top == Head(stack)

\* _process_subsection(subsection, parent_id, section_num)
ProcessSubsection ==
    /\ pc = "body" /\ stack # <<>> /\ Top.tag = "Subsection"
    /\ \E raw_label \in SubsectionLabels, raw_note \in MarginalNotes,
          npara \in 0..MaxKids :
         IF LabelMissing(raw_label)
           THEN /\ stack' = Tail(stack)
                /\ last' = Elem("Subsection", "", raw_label, 0, npara, 0,
                                None)
                /\ UNCHANGED <<nodes, log>>
           ELSE LET subsec_label == GetText(raw_label)
                    node_id      == SubsectionId(Top.section_num, subsec_label)
                    node         == SubsectionNode(Top, subsec_label,
                                                   GetText(raw_note))
                IN  /\ nelems + Len(stack) + npara <= MaxElems
                    /\ nodes' = Attach(nodes, node_id, node)
                    /\ stack' = SubsectionCalls(node_id, Top, subsec_label,
                                                npara) \o Tail(stack)
                    /\ last' = Elem("Subsection", "", raw_label, 0, npara,
                                    0, node_id)
                    /\ log' = log \o Logged(node_id, node.parent_id)
    /\ nelems' = nelems + 1
    /\ UNCHANGED <<download, pc, has_body, current_part_id, current_part_label,
                   current_heading_id>>

\* _process_paragraph(paragraph, parent_id, section_num, subsec_label)
ProcessParagraph ==
    /\ pc = "body" /\ stack # <<>> /\ Top.tag = "Paragraph"
    /\ \E raw_label \in ParagraphLabels, nsubpara \in 0..MaxKids :
         IF LabelMissing(raw_label)
           THEN /\ stack' = Tail(stack)
                /\ last' = Elem("Paragraph", "", raw_label, 0, 0, nsubpara,
                                None)
                /\ UNCHANGED <<nodes, log>>
           ELSE LET para_label == GetText(raw_label)
                    node_id    == ParagraphId(Top.section_num,
                                              Top.subsec_label, para_label)
                    node       == ParagraphNode(Top, para_label)
                IN  /\ nelems + Len(stack) + nsubpara <= MaxElems
                    /\ nodes' = Attach(nodes, node_id, node)
                    /\ stack' = ParagraphCalls(node_id, Top, para_label,
                                               nsubpara) \o Tail(stack)
                    /\ last' = Elem("Paragraph", "", raw_label, 0, 0,
                                    nsubpara, node_id)
                    /\ log' = log \o Logged(node_id, node.parent_id)
    /\ nelems' = nelems + 1
    /\ UNCHANGED <<download, pc, has_body, current_part_id, current_part_label,
                   current_heading_id>>

\* _process_subparagraph(subparagraph, parent_id, section_num, subsec_label,
\* para_label)
ProcessSubparagraph ==
    /\ pc = "body" /\ stack # <<>> /\ Top.tag = "Subparagraph"
    /\ \E raw_label \in NestedLabels :
         IF LabelMissing(raw_label)
           THEN /\ last' = Elem("Subparagraph", "", raw_label, 0, 0, 0, None)
                /\ UNCHANGED <<nodes, log>>
           ELSE LET subpara_label == GetText(raw_label)
                    node_id       == SubparagraphId(Top.section_num,
                                         Top.subsec_label, Top.para_label,
                                         subpara_label)
                    node          == SubparagraphNode(Top, subpara_label)
                IN  /\ nodes' = Attach(nodes, node_id, node)
                    /\ last' = Elem("Subparagraph", "", raw_label, 0, 0, 0,
                                    node_id)
                    /\ log' = log \o Logged(node_id, node.parent_id)
    /\ stack' = Tail(stack)
    /\ nelems' = nelems + 1
    /\ UNCHANGED <<download, pc, has_body, current_part_id, current_part_label,
                   current_heading_id>>

\* parse, lines 126-127: the Body is exhausted, the hierarchy is returned
EndBody ==
    /\ AtTopLevel
    /\ pc' = "done"
    /\ UNCHANGED <<download,
                   has_body, nodes, current_part_id, current_part_label,
                   current_heading_id, stack, nelems, last, log>>

Next ==
    \/ CreateRootNode
    \/ FindBody
    \/ ProcessHeading
    \/ ProcessSection
    \/ ProcessOther
    \/ ProcessSubsection
    \/ ProcessParagraph
    \/ ProcessSubparagraph
    \/ EndBody

Spec == Init /\ [][Next]_vars

----------------------------------------------------------------------------
(* download_with_retry(builder_name, config, split, dest, retries) of       *)
(* src/download_cases.py.  Each call it makes (load_dataset, save_to_disk,  *)
(* time.sleep) is one step, and every such call returns or raises; the      *)
(* print calls write to the console and change nothing.                     *)

\* seconds of time.sleep(10)
Backoff == 10

\* the exceptions a failed load_dataset or save_to_disk raises
AttemptErrors == {"ConnectionError", "OSError"}

\* the exception classes that are not subclasses of Exception
BaseExceptions == {"KeyboardInterrupt", "SystemExit", "GeneratorExit"}

\* `except Exception as e` catches exc
Caught(exc) == exc \notin BaseExceptions

\* range(1, retries + 1) holds attempt
InRange(attempt, retries) == 1 <= attempt /\ attempt <= retries

\* mutant: the loop waits after the last failed attempt as well
RetryPending_AlsoLast(attempt, retries) == attempt <= retries

\* `if attempt < retries`
RetryPending(attempt, retries) == attempt < retries

\* the call download_with_retry(..., retries)
DownloadCall(retries) ==
    [NotDownloading EXCEPT !.pc = "for", !.retries = retries]

\* a run of download_with_retry; the parser is not running
DownloadInit ==
    /\ ParserInit /\ has_body
    /\ \E retries \in 0..MaxRetries : download = DownloadCall(retries)

\* `for attempt in range(1, retries + 1)`: the next attempt, or, the range
\* exhausted, the message of line 29 and the return
ForAttempt ==
    /\ download.pc = "for"
    /\ download' =
         IF InRange(download.attempt + 1, download.retries)
           THEN [download EXCEPT !.attempt = @ + 1, !.pc = "load"]
           ELSE [download EXCEPT !.pc = "gave_up"]
    /\ UNCHANGED parser_vars

\* lines 15-20: ds = load_dataset(...) returns or raises
LoadDataset ==
    /\ download.pc = "load"
    /\ \/ download' = [download EXCEPT !.loads = @ + 1, !.pc = "save"]
       \/ \E e \in AttemptErrors :
            download' = [download EXCEPT !.loads = @ + 1,
                                         !.pc = "except",
                                         !.exc = e,
                                         !.failures = Append(@, "load_dataset")]
    /\ UNCHANGED parser_vars

\* lines 21-23: ds.save_to_disk(dest) returns, and the function with it, or
\* raises
SaveToDisk ==
    /\ download.pc = "save"
    /\ \/ download' = [download EXCEPT !.saves = @ + 1, !.pc = "returned"]
       \/ \E e \in AttemptErrors :
            download' = [download EXCEPT !.pc = "except",
                                         !.exc = e,
                                         !.failures = Append(@, "save_to_disk")]
    /\ UNCHANGED parser_vars

\* lines 24-26: the except clause
HandleException ==
    /\ download.pc = "except"
    /\ download' =
         IF ~Caught(download.exc)
           THEN [download EXCEPT !.pc = "raised"]
         ELSE IF RetryPending(download.attempt, download.retries)
           THEN [download EXCEPT !.pc = "sleep", !.exc = ""]
           ELSE [download EXCEPT !.pc = "for", !.exc = ""]
    /\ UNCHANGED parser_vars

\* lines 27-28: time.sleep(10)
Sleep ==
    /\ download.pc = "sleep"
    /\ download' = [download EXCEPT !.slept = @ + Backoff, !.pc = "for"]
    /\ UNCHANGED parser_vars

DownloadNext ==
    \/ ForAttempt
    \/ LoadDataset
    \/ SaveToDisk
    \/ HandleException
    \/ Sleep

\* download_with_retry runs on: each of its calls returns or raises
DownloadSpec ==
    DownloadInit /\ [][DownloadNext]_vars /\ WF_vars(DownloadNext)

----------------------------------------------------------------------------
(* Helpers of the properties. *)

\* a step consumed one document element
ElemStep == nelems' = nelems + 1

\* number of positions of seq holding x
Count(seq, x) == Cardinality({i \in 1..Len(seq) : seq[i] = x})

\* seq is the beginning of full
IsPrefix(seq, full) ==
    Len(seq) <= Len(full) /\ SubSeq(full, 1, Len(seq)) = seq

\* seq is the end of full
IsSuffix(seq, full) ==
    Len(seq) <= Len(full)
    /\ SubSeq(full, Len(full) - Len(seq) + 1, Len(full)) = seq

\* the walk is between two top-level elements, or over
Settled == pc \in {"body", "done"} /\ stack = <<>>

\* every non-root node is listed exactly once by its parent, and every listed
\* child is a node whose parent_id is the listing node
ParentChildConsistent ==
    /\ \A n \in DOMAIN nodes :
         nodes[n].parent_id # None =>
           /\ nodes[n].parent_id \in DOMAIN nodes
           /\ Count(nodes[nodes[n].parent_id].children, n) = 1
    /\ \A p \in DOMAIN nodes : \A i \in 1..Len(nodes[p].children) :
         /\ nodes[p].children[i] \in DOMAIN nodes
         /\ nodes[nodes[p].children[i]].parent_id = p

\* following parent_id from n reaches the root without meeting a node of
\* `seen` again
RECURSIVE ReachesRoot(_, _)
ReachesRoot(n, seen) ==
    IF n = ROOT_ID THEN TRUE
    ELSE IF n \in seen \/ n \notin DOMAIN nodes THEN FALSE
    ELSE ReachesRoot(nodes[n].parent_id, seen \cup {n})

----------------------------------------------------------------------------
(* C1 .. C5 *)

\* C1: after every top-level body element has been processed, every non-root
\* node is listed exactly once in the children of the node stored under its
\* parent_id, and every id in a children list is a key of the node map whose
\* node has that parent.
C1_ParentChildConsistency == Settled => ParentChildConsistent

\* C2: every node creation stores the new node under an identifier that is
\* not yet a key of the node map.
C2_InsertionNeverReplaces ==
    [][(ElemStep /\ last'.node_id # None) =>
          last'.node_id \notin DOMAIN nodes]_vars

\* C3: once the root has been created the node map is a strict rooted tree
\* by parent_id: the root is the one node without a parent, it has kind act,
\* and the parent chain of every node reaches it without a cycle.
C3_StrictRootedTree ==
    pc # "parse" =>
      /\ {n \in DOMAIN nodes : nodes[n].parent_id = None} = {ROOT_ID}
      /\ nodes[ROOT_ID].node_type = "act"
      /\ \A n \in DOMAIN nodes : ReachesRoot(n, {})

\* C4: once an identifier is a key it stays one, its parent_id, kind and
\* citation never change, and its children list only grows at its end.
C4_MonotonicPopulation ==
    [][\A n \in DOMAIN nodes :
         /\ n \in DOMAIN nodes'
         /\ nodes'[n].parent_id = nodes[n].parent_id
         /\ nodes'[n].node_type = nodes[n].node_type
         /\ nodes'[n].full_citation = nodes[n].full_citation
         /\ IsPrefix(nodes[n].children, nodes'[n].children)]_vars

\* C5: without a Body parse fails before any node is inserted, and with a
\* Body it never fails.
C5_FatalFailureAtomic ==
    /\ pc = "failed" => (~has_body /\ DOMAIN nodes = {})
    /\ pc = "done" => has_body

----------------------------------------------------------------------------
(* C6 .. C10 *)

StructuralTags ==
    {"Heading", "Section", "Subsection", "Paragraph", "Subparagraph"}

TextTags == {"Section", "Subsection", "Paragraph", "Subparagraph"}

\* the step consumed an element of one of `tags` that has no Label
SkippedStep(tags) ==
    ElemStep /\ last'.label = None /\ last'.tag \in tags

\* C6 as stated: a Heading, Section, Subsection, Paragraph or Subparagraph
\* without a Label creates no node and raises no error, and the walk goes on.
C6_LabelLessElementSkipped ==
    [][SkippedStep(StructuralTags) =>
          /\ last'.node_id = None
          /\ DOMAIN nodes' = DOMAIN nodes
          /\ pc' = "body"]_vars

\* C6 amended: a Section, Subsection, Paragraph or Subparagraph without a
\* Label creates no node and raises no error, and the walk goes on; a
\* Heading without a Label is not skipped: it raises no error either, and at
\* level 1 or 2 with a part active it becomes a heading node with the empty
\* label (without a part, or at another level, it creates nothing).
C6_LabelLessSkippedExceptHeading ==
    [][SkippedStep(StructuralTags) =>
          /\ pc' = "body"
          /\ last'.tag \in TextTags =>
               (last'.node_id = None /\ DOMAIN nodes' = DOMAIN nodes)
          /\ last'.tag = "Heading" =>
               /\ last'.node_id # None <=>
                    (last'.level \in {"1", "2"} /\ current_part_id # None)
               /\ last'.node_id # None =>
                    /\ last'.node_id \notin DOMAIN nodes
                    /\ nodes'[last'.node_id].node_type = "heading"
                    /\ nodes'[last'.node_id].label = Empty]_vars

\* a label-less Section, Subsection, Paragraph or Subparagraph has just been
\* skipped in a tree that holds a heading node made from a label-less Heading
C6_Witness ==
    /\ last.tag \in TextTags /\ last.label = None /\ nelems > 0
    /\ \E n \in DOMAIN nodes :
         nodes[n].node_type = "heading" /\ nodes[n].label = Empty

\* C7: skipping a label-less Section, Subsection, Paragraph or Subparagraph
\* leaves the node map (node count and every children list) and the walker
\* context as they were, schedules no call for a descendant of the element,
\* and leaves the calls pending for the later elements as they were.
C7_SkipLeavesStateUnchanged ==
    [][SkippedStep(TextTags) =>
          /\ nodes' = nodes
          /\ current_part_id' = current_part_id
          /\ current_part_label' = current_part_label
          /\ current_heading_id' = current_heading_id
          /\ stack' = (IF stack = <<>> THEN <<>> ELSE Tail(stack))
          /\ pc' = pc]_vars

\* a label-less Subsection that holds Paragraph elements has just been
\* skipped while a later sibling is still to be processed
C7_Witness ==
    /\ last.tag = "Subsection" /\ last.label = None /\ last.npara > 0
    /\ nelems > 0
    /\ stack # <<>>
    /\ Cardinality(DOMAIN nodes) > 1

\* the ids attached to parent p, in document order
RECURSIVE AttachedTo(_, _)
AttachedTo(entries, p) ==
    IF entries = <<>> THEN <<>>
    ELSE (IF Head(entries).parent = p THEN <<Head(entries).id>> ELSE <<>>)
         \o AttachedTo(Tail(entries), p)

\* C8: the children list of every node holds the ids of the elements
\* attached to it in the order in which the document holds them: it is the
\* end of the document-order list of the attachments to that node.
C8_OrderPreservation ==
    \A p \in DOMAIN nodes : IsSuffix(nodes[p].children, AttachedTo(log, p))

\* a finished walk with a node that has two different children, attached
\* while elements were attached to other nodes as well
C8_Witness ==
    /\ pc = "done"
    /\ \E p \in DOMAIN nodes :
         /\ Len(nodes[p].children) >= 2
         /\ nodes[p].children[1] # nodes[p].children[2]
         /\ Len(log) > Len(nodes[p].children)

\* base_id with the suffix _k
Suffixed(base_id, k) == base_id \o <<"_">> \o IntToStr(k)

\* the step stored a node of kind heading
HeadingCreated ==
    /\ ElemStep /\ last'.tag = "Heading" /\ last'.node_id # None
    /\ nodes'[last'.node_id].node_type = "heading"

\* C9: a sub-heading is inserted under the first free id among its candidate
\* id and the candidate suffixed _1, _2, ...; the insertion replaces no
\* node, and every node of before is kept as it was (the part gaining the
\* new child).
C9_HeadingDisambiguation ==
    [][HeadingCreated =>
          LET id   == last'.node_id
              base == HeadingBaseId(current_part_id, nodes'[id].title)
          IN  /\ id \notin DOMAIN nodes
              /\ \/ id = base
                 \/ \E k \in 1..Cardinality(DOMAIN nodes) :
                      /\ id = Suffixed(base, k)
                      /\ base \in DOMAIN nodes
                      /\ \A j \in 1..(k - 1) :
                           Suffixed(base, j) \in DOMAIN nodes
              /\ DOMAIN nodes' = DOMAIN nodes \cup {id}
              /\ nodes'[id].parent_id = current_part_id
              /\ \A n \in DOMAIN nodes :
                   nodes'[n] =
                     IF n = current_part_id
                       THEN [nodes[n] EXCEPT !.children = Append(@, id)]
                       ELSE nodes[n]]_vars

\* the third sub-heading of one part with one slug has been stored, under
\* the candidate id suffixed _2
C9_Witness ==
    /\ last.tag = "Heading" /\ last.node_id # None
    /\ last.node_id \in DOMAIN nodes
    /\ nodes[last.node_id].node_type = "heading"
    /\ last.node_id =
         Suffixed(HeadingBaseId(nodes[last.node_id].parent_id,
                                nodes[last.node_id].title), 2)

\* the labels on the parent chain of n, root first
RECURSIVE LabelChain(_, _)
LabelChain(n, seen) ==
    IF n = None \/ n \in seen \/ n \notin DOMAIN nodes THEN <<>>
    ELSE Append(LabelChain(nodes[n].parent_id, seen \cup {n}),
                nodes[n].label)

\* C10: two nodes of one kind with equal root-to-node chains of
\* labels have equal citations.
C10_CitationFunctionOfLabelChain ==
    \A a, b \in DOMAIN nodes :
       (/\ nodes[a].node_type = nodes[b].node_type
        /\ LabelChain(a, {}) = LabelChain(b, {}))
       => nodes[a].full_citation = nodes[b].full_citation

----------------------------------------------------------------------------
(* The queries of StatuteHierarchy. *)

\* the node_type strings, as text
KindText(node_type) ==
    CASE node_type = "act"          -> <<"a","c","t">>
      [] node_type = "part"         -> <<"p","a","r","t">>
      [] node_type = "heading"      -> <<"h","e","a","d","i","n","g">>
      [] node_type = "section"      -> <<"s","e","c","t","i","o","n">>
      [] node_type = "subsection"   ->
           <<"s","u","b","s","e","c","t","i","o","n">>
      [] node_type = "paragraph"    ->
           <<"p","a","r","a","g","r","a","p","h">>
      [] node_type = "subparagraph" ->
           <<"s","u","b","p","a","r","a","g","r","a","p","h">>

\* node.label or node.title or node.node_type
PathEntry(node) ==
    IF node.label # Empty THEN node.label
    ELSE IF node.title # Empty THEN node.title
    ELSE KindText(node.node_type)

\* list(reversed(seq))
Reversed(seq) == [i \in 1..Len(seq) |-> seq[Len(seq) + 1 - i]]

\* the while loop of get_path.  A round that finds current_id in the map
\* after as many rounds as the map has nodes has met a node twice, and the
\* loop, which then repeats itself, does not end: returns = FALSE.
RECURSIVE PathLoop(_, _, _, _)
PathLoop(ns, current_id, path, rounds) ==
    IF current_id = None \/ current_id = Empty
      THEN [returns |-> TRUE, path |-> path]
    ELSE IF current_id \notin DOMAIN ns
      THEN [returns |-> TRUE, path |-> path]
    ELSE IF rounds = 0
      THEN [returns |-> FALSE, path |-> path]
    ELSE PathLoop(ns, ns[current_id].parent_id,
                  Append(path, PathEntry(ns[current_id])), rounds - 1)

\* StatuteHierarchy.get_path(node_id)
GetPath(ns, node_id) ==
    LET r == PathLoop(ns, node_id, <<>>, Cardinality(DOMAIN ns))
    IN  [returns |-> r.returns, path |-> Reversed(r.path)]

\* identifiers get_path is asked for besides the keys of the map: the id of
\* a section the document does not have, the empty string and None
UnknownIds == { SectionId(<<"9">>), Empty, None }

\* len([n for n in self.nodes.values() if n.node_type == kind])
CountKind(ns, kind) ==
    Cardinality({n \in DOMAIN ns : ns[n].node_type = kind})

\* the "stats" entry of StatuteHierarchy.to_dict()
Stats(ns) ==
    [ total_nodes   |-> Cardinality(DOMAIN ns),
      parts         |-> CountKind(ns, "part"),
      sections      |-> CountKind(ns, "section"),
      subsections   |-> CountKind(ns, "subsection"),
      paragraphs    |-> CountKind(ns, "paragraph"),
      subparagraphs |-> CountKind(ns, "subparagraph") ]

----------------------------------------------------------------------------
(* C11 .. C15 *)

\* kinds of the nodes below a section
NestedKinds == {"subsection", "paragraph", "subparagraph"}

\* C11: in a completed tree every subsection, paragraph and subparagraph node
\* has the citation of the node stored under its parent_id followed by its
\* own label, and the id of its parent followed by "_" and its label without
\* the parentheses.
C11_CitationAndIdChaining ==
    pc = "done" =>
      \A n \in DOMAIN nodes :
         nodes[n].node_type \in NestedKinds =>
           LET p == nodes[n].parent_id
           IN  /\ p \in DOMAIN nodes
               /\ nodes[n].full_citation
                    = nodes[p].full_citation \o nodes[n].label
               /\ n = p \o <<"_">> \o StripParens(nodes[n].label)

\* the entry the path holds for a node: its label if non-empty, else its
\* title if non-empty, else its kind
EntryOf(n) ==
    IF Len(nodes[n].label) > 0 THEN nodes[n].label
    ELSE IF Len(nodes[n].title) > 0 THEN nodes[n].title
    ELSE KindText(nodes[n].node_type)

\* the entries of the parent chain of n, root first and n last
RECURSIVE ChainEntries(_, _)
ChainEntries(n, depth) ==
    IF nodes[n].parent_id \notin DOMAIN nodes \/ depth = 0
      THEN <<EntryOf(n)>>
      ELSE Append(ChainEntries(nodes[n].parent_id, depth - 1), EntryOf(n))

\* C12: on every tree of the walker get_path returns for every identifier:
\* the empty sequence for an identifier that is not in the map, and for a
\* node one entry per node of its parent chain, root first and the node
\* last, each the node's label, else its title, else its kind.
C12_GetPathTerminatesRootFirst ==
    pc # "parse" =>
      /\ \A id \in UnknownIds :
           GetPath(nodes, id) = [returns |-> TRUE, path |-> <<>>]
      /\ \A n \in DOMAIN nodes :
           /\ GetPath(nodes, n).returns
           /\ GetPath(nodes, n).path
                = ChainEntries(n, Cardinality(DOMAIN nodes))
           /\ GetPath(nodes, n).path[1] = CBCA

\* the counts of a stats record other than the total, added up
RECURSIVE SumCounts(_, _)
SumCounts(st, keys) ==
    IF keys = {} THEN 0
    ELSE LET k == CHOOSE x \in keys : TRUE
         IN  st[k] + SumCounts(st, keys \ {k})

\* C13: the per-kind counts of the summary statistics of a completed tree
\* account for every node: their sum is the total node count.
C13_StatsAccountForEveryNode ==
    pc = "done" =>
      SumCounts(Stats(nodes), DOMAIN Stats(nodes) \ {"total_nodes"})
        = Stats(nodes).total_nodes

\* the step stored a section node
SectionCreated == ElemStep /\ last'.tag = "Section" /\ last'.node_id # None

\* C14: a labelled Section is attached to current_heading_id if it is set,
\* else to current_part_id if it is set, else to the root; so while a
\* heading is current (after a Part heading and a sub-heading, until the
\* next Part) a Section becomes a child of that heading node, not of the
\* Part.
C14_SectionAttachment ==
    [][SectionCreated =>
          LET id     == last'.node_id
              parent == IF current_heading_id # None THEN current_heading_id
                        ELSE IF current_part_id # None THEN current_part_id
                        ELSE ROOT_ID
          IN  /\ nodes'[id].node_type = "section"
              /\ nodes'[id].parent_id = parent
              /\ parent \in DOMAIN nodes
              /\ nodes'[parent].children = Append(nodes[parent].children, id)
              /\ current_heading_id # None =>
                   /\ nodes'[parent].node_type = "heading"
                   /\ parent # current_part_id
                   /\ nodes'[parent].parent_id = current_part_id]_vars

\* a Section has just been attached to the sub-heading of a Part that also
\* has a Section of its own
C14_Witness ==
    /\ last.tag = "Section" /\ last.node_id \in DOMAIN nodes
    /\ nodes[nodes[last.node_id].parent_id].node_type = "heading"
    /\ nodes[last.node_id].parent_id = current_heading_id
    /\ \E n \in DOMAIN nodes :
         /\ nodes[n].node_type = "section"
         /\ nodes[n].parent_id = current_part_id

\* the step consumed a level-1 Heading whose label begins with PART
PartHeadingStep ==
    /\ ElemStep /\ last'.tag = "Heading" /\ last'.level = "1"
    /\ StartsWith(GetText(last'.label), PART)

\* C15: a level-1 Heading with the Part marker stores a part node whose
\* parent is the root, appends it to the root's children, makes it
\* current_part_id and clears current_heading_id; a Section met while a part
\* is current and no heading is (no sub-heading since the Part) is attached
\* to that part.
C15_PartTransition ==
    [][/\ PartHeadingStep =>
            LET id == last'.node_id
            IN  /\ id \in DOMAIN nodes'
                /\ nodes'[id].node_type = "part"
                /\ nodes'[id].parent_id = ROOT_ID
                /\ nodes'[ROOT_ID].children
                     = Append(nodes[ROOT_ID].children, id)
                /\ current_part_id' = id
                /\ current_heading_id' = None
       /\ (SectionCreated /\ last.tag = "Heading" /\ last.level = "1"
              /\ StartsWith(GetText(last.label), PART)) =>
            /\ nodes'[last'.node_id].parent_id = last.node_id
            /\ nodes'[last.node_id].node_type = "part"
            /\ nodes'[last.node_id].children = <<last'.node_id>>]_vars

\* a Section has just been attached to the second Part of a document whose
\* first Part has a sub-heading
C15_Witness ==
    /\ last.tag = "Section" /\ last.node_id \in DOMAIN nodes
    /\ nodes[last.node_id].parent_id = current_part_id
    /\ current_heading_id = None
    /\ \E h \in DOMAIN nodes :
         /\ nodes[h].node_type = "heading"
         /\ nodes[h].parent_id # current_part_id

----------------------------------------------------------------------------
(* C16 .. C20 *)

\* the step consumed a Heading at level 2, or at level 1 without the Part
\* marker
SubHeadingStep ==
    /\ ElemStep /\ last'.tag = "Heading"
    /\ \/ last'.level = "2"
       \/ last'.level = "1" /\ ~StartsWith(GetText(last'.label), PART)

\* C16: a Heading at level 2, or at level 1 without the Part marker, stores
\* with a part active a heading node attached to current_part_id and makes
\* it current_heading_id; with no part active it stores nothing and leaves
\* the node map and the walker context as they were, and a Section met with
\* no part active is attached to the root.
C16_SubHeadingTransition ==
    [][/\ SubHeadingStep =>
            IF current_part_id # None
              THEN LET id == last'.node_id
                   IN  /\ id \in DOMAIN nodes' \ DOMAIN nodes
                       /\ nodes'[id].node_type = "heading"
                       /\ nodes'[id].parent_id = current_part_id
                       /\ nodes'[current_part_id].children
                            = Append(nodes[current_part_id].children, id)
                       /\ current_heading_id' = id
                       /\ current_part_id' = current_part_id
                       /\ current_part_label' = current_part_label
              ELSE /\ last'.node_id = None
                   /\ nodes' = nodes
                   /\ current_part_id' = None
                   /\ current_part_label' = current_part_label
                   /\ current_heading_id' = current_heading_id
       /\ (SectionCreated /\ current_part_id = None) =>
            nodes'[last'.node_id].parent_id = ROOT_ID]_vars

\* a level-1 Heading without the Part marker has just been dropped, no part
\* being active, in a tree that has a Section under the root
C16_Witness ==
    /\ last.tag = "Heading" /\ last.level = "1" /\ last.node_id = None
    /\ nelems > 1
    /\ current_part_id = None /\ current_heading_id = None
    /\ \E n \in DOMAIN nodes :
         nodes[n].node_type = "section" /\ nodes[n].parent_id = ROOT_ID

\* the pending calls of seq that process an element with tag `tag`
CallsOf(seq, tag) == {i \in 1..Len(seq) : seq[i].tag = tag}

\* the step processed a labelled element with tag `tag`
LabelledStep(tag) ==
    ElemStep /\ stack # <<>> /\ last'.tag = tag /\ last'.label # None

\* C17: the direct Paragraphs of a Section are processed, each labelled one
\* becoming a child of the section node, if and only if the Section has no
\* Subsection; with a Subsection, every labelled Subsection becomes a child
\* of the section node and no call is made for the direct Paragraphs, also
\* when every Subsection is skipped for its missing label.
C17_DirectParagraphsIffNoSubsection ==
    [][/\ SectionCreated =>
            LET id == last'.node_id
            IN  /\ \A i \in 1..Len(stack') : stack'[i].parent_id = id
                /\ IF last'.nsub = 0
                     THEN /\ Len(stack') = last'.npara
                          /\ CallsOf(stack', "Paragraph") = 1..last'.npara
                     ELSE /\ Len(stack') = last'.nsub
                          /\ CallsOf(stack', "Subsection") = 1..last'.nsub
       /\ (LabelledStep("Subsection")
            \/ (LabelledStep("Paragraph")
                  /\ Top.parent_id = SectionId(Top.section_num))) =>
            LET id == last'.node_id
                p  == Top.parent_id
            IN  /\ id \in DOMAIN nodes'
                /\ nodes'[id].node_type
                     = (IF last'.tag = "Subsection" THEN "subsection"
                        ELSE "paragraph")
                /\ nodes'[id].parent_id = p
                /\ nodes[p].node_type = "section"
                /\ nodes'[p].children = Append(nodes[p].children, id)
       /\ (ElemStep /\ stack # <<>> /\ last'.tag = "Subsection") =>
            \A i \in 1..Len(stack') :
               stack'[i].tag = "Paragraph" =>
                 stack'[i].parent_id # SectionId(stack'[i].section_num)]_vars

\* a Section that holds Subsections and Paragraphs has just been stored:
\* the calls pending are those for its Subsections alone
C17_Witness ==
    /\ last.tag = "Section" /\ last.node_id \in DOMAIN nodes
    /\ last.nsub > 0 /\ last.npara > 0
    /\ Len(stack) = last.nsub
    /\ CallsOf(stack, "Paragraph") = {}

\* C18: a top-level element of the Body whose tag is none of Heading,
\* Section, Subsection, Paragraph, Subparagraph leaves the node map with
\* every children list, the walker context and the position of the walk as
\* they were, so that the elements after it are processed as without it.
C18_UnknownElementIgnored ==
    [][(ElemStep /\ stack = <<>> /\ last'.tag \notin StructuralTags) =>
          /\ nodes' = nodes
          /\ current_part_id' = current_part_id
          /\ current_part_label' = current_part_label
          /\ current_heading_id' = current_heading_id
          /\ stack' = <<>>
          /\ pc' = pc
          /\ log' = log]_vars

\* an element with another tag that has a Label has just been ignored
\* between the elements of a Part with a sub-heading
C18_Witness ==
    /\ last.tag \notin StructuralTags /\ last.label # None /\ nelems > 2
    /\ current_part_id # None /\ current_heading_id # None
    /\ pc = "body"

\* download_with_retry has returned
DownloadOver == download.pc \in {"returned", "gave_up"}

\* C19: download_with_retry with retries = N >= 1 calls load_dataset at most
\* N times, returns at once after the first attempt whose download and
\* save both complete, sleeps the fixed backoff after every failed attempt
\* but the last of the N, never lets the exception of an attempt out, and
\* always returns, also when all N attempts fail.
C19_BoundedRetry ==
    /\ [](download.retries >= 1 =>
            /\ download.loads <= download.retries
            /\ download.loads <= download.attempt
            /\ download.attempt <= download.retries
            /\ download.pc # "raised"
            /\ download.saves = 1 <=> download.pc = "returned"
            /\ download.slept <= Backoff * Len(download.failures)
            /\ download.pc = "returned" =>
                 /\ download.saves = 1
                 /\ Len(download.failures) = download.loads - 1
                 /\ download.slept = Backoff * Len(download.failures)
            /\ download.pc = "gave_up" =>
                 /\ download.saves = 0
                 /\ download.loads = download.retries
                 /\ Len(download.failures) = download.retries
                 /\ download.slept = Backoff * (download.retries - 1))
    /\ [][/\ download.saves = 1 => download' = download
          /\ download'.loads > download.loads =>
               /\ download.saves = 0
               /\ download.slept = Backoff * Len(download.failures)
          /\ download'.slept # download.slept =>
               /\ download'.slept = download.slept + Backoff
               /\ Len(download.failures) = download.attempt
               /\ download.attempt < download.retries]_vars
    /\ <>DownloadOver

\* the third attempt has succeeded after two failed ones and two waits
C19_Witness ==
    /\ download.pc = "returned"
    /\ download.failures = <<"load_dataset", "save_to_disk">>
    /\ download.loads = 3
    /\ download.slept = 2 * Backoff

\* C20: after every top-level element, current_part_id, if set, is the id
\* of a node of kind part whose parent is the root, and current_heading_id,
\* if set, is the id of a node of kind heading whose parent_id is
\* current_part_id, which is set.
C20_WalkerContextInvariant ==
    Settled =>
      /\ current_part_id # None =>
           /\ current_part_id \in DOMAIN nodes
           /\ nodes[current_part_id].node_type = "part"
           /\ nodes[current_part_id].parent_id = ROOT_ID
      /\ current_heading_id # None =>
           /\ current_part_id # None
           /\ current_heading_id \in DOMAIN nodes
           /\ nodes[current_heading_id].node_type = "heading"
           /\ nodes[current_heading_id].parent_id = current_part_id

\* the walk stands after a sub-heading of the second Part of a document
\* whose first Part has a sub-heading as well
C20_Witness ==
    /\ Settled /\ last.tag = "Heading"
    /\ current_part_id # None /\ current_heading_id # None
    /\ \E h \in DOMAIN nodes :
         /\ nodes[h].node_type = "heading"
         /\ nodes[h].parent_id # current_part_id

----------------------------------------------------------------------------
(* C21 *)

\* the kinds a node of kind `kind` may have as its parent
AllowedParents(kind) ==
    CASE kind = "part"         -> {"act"}
      [] kind = "heading"      -> {"part"}
      [] kind = "section"      -> {"heading", "part", "act"}
      [] kind = "subsection"   -> {"section"}
      [] kind = "paragraph"    -> {"subsection", "section"}
      [] kind = "subparagraph" -> {"paragraph"}
      [] OTHER                 -> {}

\* C21: in every tree of the walker the node stored under the parent_id of
\* a node has a kind allowed for the kind of that node: part under act,
\* heading under part, section under heading, part or act, subsection under
\* section, paragraph under subsection or section, subparagraph under
\* paragraph.
C21_KindNesting ==
    \A n \in DOMAIN nodes :
       nodes[n].parent_id # None =>
         /\ nodes[n].parent_id \in DOMAIN nodes
         /\ nodes[nodes[n].parent_id].node_type
              \in AllowedParents(nodes[n].node_type)

====
